---- MODULE Spec2Model ----
(***************************************************************************)
(* EventBot: a collector of historical-event notes.                        *)
(*   src/event_bot.py        EventBot: model client with retry, time-range *)
(*                           segmenter, token budget, note writer,         *)
(*                           interactive session                           *)
(*   src/detail_generator.py DetailGenerator: event extraction, detail     *)
(*                           notes, back-link patch of the source note     *)
(*   src/config.py           RETRY_ATTEMPTS, MAX_TOKENS_TOTAL              *)
(*                                                                         *)
(* Text is a sequence of characters; a character is a record [c, p]: c is  *)
(* the character, p is <<>> except for the one character that stands for   *)
(* the relative path of a detail note inside a link annotation.            *)
(***************************************************************************)
EXTENDS Integers, Sequences, FiniteSets, TLC

VARIABLES
    call_count,     \* EventBot.call_count
    total_tokens,   \* EventBot.total_tokens
    lastCall,       \* what the transport saw of the latest call_model invocation
    split,          \* latest split_time_range invocation: arguments and result
    event_dir,      \* files of the event folder: path -> content
    detail_dir,     \* files of the AIdetails folder: path -> content
    lastSave,       \* the latest save_*_to_obsidian invocation: path probed, result
    session,        \* interactive_session: position and locals of the round
    detail          \* process_event_list_file: position and locals

vars == <<call_count, total_tokens, lastCall, split, event_dir, detail_dir, lastSave,
          session, detail>>

----------------------------------------------------------------------------
(* Bounds of the model *)

MaxYear == 6
MaxSegments == 4
MaxCalls == 2
MaxFiles == 3
MaxRounds == 1
MaxPieces == 2

(* Program constants *)

RETRY_ATTEMPTS == 3
MAX_TOKENS_TOTAL == 5000

----------------------------------------------------------------------------
(* Helpers *)

Min(a, b) == IF a <= b THEN a ELSE b

Last(s) == s[Len(s)]

\* Python's // on integers: floor division, divisor positive here
FloorDiv(a, b) == a \div b

----------------------------------------------------------------------------
(* EventBot.split_time_range *)

\* mutant: the width of a segment rounded down instead of up
years_per_segment_floor(start_year, end_year, segments) ==
    FloorDiv(end_year - start_year + 1, segments)

\* mutant: the width of a segment rounded to the nearest integer
years_per_segment_nearest(start_year, end_year, segments) ==
    FloorDiv(2 * (end_year - start_year + 1) + segments, 2 * segments)

\* years_per_segment = (total_years + segments - 1) // segments
years_per_segment(start_year, end_year, segments) ==
    LET total_years == end_year - start_year + 1
    IN  FloorDiv(total_years + segments - 1, segments)

\* the body of `for i in range(segments)`, from iteration i on
RECURSIVE split_loop(_, _, _, _, _, _)
split_loop(i, current_year, per_segment, end_year, segments, time_segments) ==
    IF i >= segments THEN time_segments
    ELSE LET segment_start == current_year
             segment_end == Min(current_year + per_segment - 1, end_year)
             appended == Append(time_segments, <<segment_start, segment_end>>)
         IN  IF segment_end + 1 > end_year
             THEN appended
             ELSE split_loop(i + 1, segment_end + 1, per_segment, end_year,
                             segments, appended)

\* segments >= 1 (segments = 0 divides by zero, segments < 0 loops zero times)
split_time_range(start_year, end_year, segments) ==
    split_loop(0, start_year, years_per_segment(start_year, end_year, segments),
               end_year, segments, <<>>)

NoSplit == [called |-> FALSE, start_year |-> 0, end_year |-> 0, segments |-> 1,
            time_segments |-> <<>>]

\* one call split_time_range(start_year, end_year, segments)
SplitTimeRange ==
    \E start_year \in 0..MaxYear, end_year \in 0..MaxYear, segments \in 1..MaxSegments :
        /\ split' = [called |-> TRUE, start_year |-> start_year, end_year |-> end_year,
                     segments |-> segments,
                     time_segments |-> split_time_range(start_year, end_year, segments)]
        /\ UNCHANGED <<call_count, total_tokens, lastCall, event_dir, detail_dir,
                       lastSave, session, detail>>

----------------------------------------------------------------------------
(* The transport: what one requests.post attempt of call_model can meet *)

\* kind "timeout":   no response (Timeout, ConnectionError): post raises
\* kind "status":    a response with a non-2xx status: raise_for_status raises
\* kind "broken":    a 2xx response whose stream breaks after the fragments frags
\*                   (ChunkedEncodingError out of iter_lines); streaming only
\* kind "malformed": a 2xx response whose envelope has an empty choices list:
\*                   [0] raises IndexError, which is no RequestException
\* kind "ok":        a 2xx response read to its end: frags are the delta contents
\*                   (streaming) or the message content, usage the reported usage
Outcome(kind, frags, usage) == [kind |-> kind, frags |-> frags, usage |-> usage]

Usages == {0, MAX_TOKENS_TOTAL \div 2, MAX_TOKENS_TOTAL}

FailOutcomes(stream) ==
    {Outcome("timeout", <<>>, 0), Outcome("status", <<>>, 0)}
    \cup (IF stream THEN {Outcome("broken", f, 0) : f \in {<<>>, <<"x">>}} ELSE {})

OkOutcomes(stream) ==
    IF stream THEN {Outcome("ok", <<"y">>, 0)}
    ELSE {Outcome("ok", <<"y">>, u) : u \in Usages}

Outcomes(stream) ==
    FailOutcomes(stream) \cup OkOutcomes(stream) \cup {Outcome("malformed", <<>>, 0)}

\* what the transport does on each of the RETRY_ATTEMPTS attempts, were it asked
OutcomeSeqs(stream) == [1..RETRY_ATTEMPTS -> Outcomes(stream)]

----------------------------------------------------------------------------
(* EventBot.call_model *)

\* The fixed messages, each one piece of text (the source's are in Chinese):
\* "sorry, cannot connect to the model service ...", returned after the last retry
PLACEHOLDER == <<"cannot-connect">>
\* "an unknown error happened", after the loop
UNKNOWN_ERROR == <<"unknown-error">>
\* "the total token limit is reached, no more content is generated"
BUDGET_EXCEEDED == <<"token-limit-reached">>

\* requests.exceptions.RequestException and its subclasses
is_RequestException(kind) == kind \in {"timeout", "status", "broken"}

\* mutant: call_count += 1 placed before raise_for_status
counts_call_any_response(kind) == kind \in {"ok", "broken", "malformed", "status"}

\* self.call_count += 1 stands after response.raise_for_status(): the attempts
\* that reach it are those whose response has a 2xx status
counts_call(kind) == kind \in {"ok", "broken", "malformed"}

\* mutant: backoff doubling the attempt number
wait_time_double(attempt) == 2 * attempt

\* wait_time = 2 ** attempt
wait_time(attempt) == 2 ^ attempt

\* mutant: sleeps after the last attempt too
sleeps_before_retry_always(attempt) == TRUE

\* if attempt < config.RETRY_ATTEMPTS - 1
sleeps_before_retry(attempt) == attempt < RETRY_ATTEMPTS - 1

\* mutant: the usage taken off the total
tokens_used_refund(stream, o) == IF stream THEN 0 ELSE 0 - o.usage

\* mutant: every fragment streamed counted as one token
tokens_used_per_fragment(stream, o) == IF stream THEN Len(o.frags) ELSE o.usage

\* tokens_used: 0 when streaming, usage.total_tokens otherwise
tokens_used(stream, o) == IF stream THEN 0 ELSE o.usage

\* full_content after the attempt: streaming appends each delta to what the
\* variable holds, non-streaming assigns the message content of a response read
received_content(stream, full_content, o) ==
    IF stream THEN full_content \o o.frags
    ELSE IF o.kind = "ok" THEN o.frags ELSE full_content

\* mutant: a response read to its end does not leave the loop; the next attempt
\* is made
RECURSIVE call_loop_past_success(_, _, _, _)
call_loop_past_success(attempt, stream, outcomes, st) ==
    IF attempt >= RETRY_ATTEMPTS
    THEN st
    ELSE LET o == outcomes[attempt + 1]
             posted == [st EXCEPT
                 !.requests = @ + 1,
                 !.call_count = IF counts_call(o.kind) THEN @ + 1 ELSE @,
                 !.full_content = received_content(stream, @, o)]
         IN  IF o.kind = "ok"
             THEN call_loop_past_success(attempt + 1, stream, outcomes,
                      [posted EXCEPT !.total_tokens = @ + tokens_used(stream, o),
                                     !.ret = posted.full_content])
             ELSE IF ~is_RequestException(o.kind)
             THEN [posted EXCEPT !.escaped = TRUE]
             ELSE IF sleeps_before_retry(attempt)
             THEN call_loop_past_success(attempt + 1, stream, outcomes,
                      [posted EXCEPT !.sleeps = Append(@, wait_time(attempt))])
             ELSE [posted EXCEPT !.ret = PLACEHOLDER]

\* `for attempt in range(config.RETRY_ATTEMPTS)`, from iteration attempt on;
\* st holds the locals and the transport's view
RECURSIVE call_loop(_, _, _, _)
call_loop(attempt, stream, outcomes, st) ==
    IF attempt >= RETRY_ATTEMPTS
    THEN [st EXCEPT !.ret = UNKNOWN_ERROR]
    ELSE LET o == outcomes[attempt + 1]
             posted == [st EXCEPT
                 !.requests = @ + 1,
                 !.call_count = IF counts_call(o.kind) THEN @ + 1 ELSE @,
                 !.full_content = received_content(stream, @, o)]
         IN  IF o.kind = "ok"
             THEN [posted EXCEPT !.total_tokens = @ + tokens_used(stream, o),
                                 !.ret = posted.full_content]
             ELSE IF ~is_RequestException(o.kind)
             THEN [posted EXCEPT !.escaped = TRUE]
             ELSE IF sleeps_before_retry(attempt)
             THEN call_loop(attempt + 1, stream, outcomes,
                            [posted EXCEPT !.sleeps = Append(@, wait_time(attempt))])
             ELSE [posted EXCEPT !.ret = PLACEHOLDER]

\* call_model(prompt, stream=stream) with the counters at cc and tt; the result
\* holds the counters after it, the requests made, the sleeps slept, the value
\* returned (ret) or the fact that an exception left the call (escaped)
call_model(stream, outcomes, cc, tt) ==
    call_loop(0, stream, outcomes,
              [full_content |-> <<>>, call_count |-> cc, total_tokens |-> tt,
               requests |-> 0, sleeps |-> <<>>, ret |-> <<>>, escaped |-> FALSE])

\* the record kept of an invocation: who asked, what the transport met, the result
CallRecord(caller, stream, outcomes, cc, tt, r) ==
    [made |-> TRUE, caller |-> caller, stream |-> stream,
     attempts |-> SubSeq(outcomes, 1, r.requests),
     requests |-> r.requests, sleeps |-> r.sleeps, ret |-> r.ret,
     escaped |-> r.escaped, cc_before |-> cc, tt_before |-> tt,
     cc_after |-> r.call_count, tt_after |-> r.total_tokens]

NoCall == [made |-> FALSE, caller |-> "", stream |-> TRUE, attempts |-> <<>>,
           requests |-> 0, sleeps |-> <<>>, ret |-> <<>>, escaped |-> FALSE,
           cc_before |-> 0, tt_before |-> 0, cc_after |-> 0, tt_after |-> 0]

\* one invocation of the public method call_model on the instance
CallModel ==
    /\ call_count < MaxCalls
    /\ session.pc = "idle"
    /\ detail.pc = "idle"
    /\ \E stream \in BOOLEAN :
       \E outcomes \in OutcomeSeqs(stream) :
          LET r == call_model(stream, outcomes, call_count, total_tokens)
          IN  /\ call_count' = r.call_count
              /\ total_tokens' = r.total_tokens
              /\ lastCall' = CallRecord("call_model", stream, outcomes,
                                        call_count, total_tokens, r)
    /\ UNCHANGED <<split, event_dir, detail_dir, lastSave, session, detail>>

----------------------------------------------------------------------------
(* Text *)

\* a plain character
Ch(c) == [c |-> c, p |-> <<>>]

\* the text of a string literal, one character per element
Text(cs) == [i \in 1..Len(cs) |-> Ch(cs[i])]

\* str.isalnum() on one character: letters and digits ("d" stands for the two
\* Chinese characters of the link label and of the detail file name)
isalnum(ch) == ch.c \in {"a", "b", "d", "0", "1", "2"}

\* "".join(c for c in event_name if c.isalnum() or c in " _-")
RECURSIVE keep_safe(_)
keep_safe(name) ==
    IF name = <<>> THEN <<>>
    ELSE LET c == Head(name)
         IN  (IF isalnum(c) \/ c.c \in {" ", "_", "-"} THEN <<c>> ELSE <<>>)
             \o keep_safe(Tail(name))

\* str.strip(): leading and trailing white space removed
RECURSIVE lstrip(_)
lstrip(t) == IF t # <<>> /\ Head(t).c = " " THEN lstrip(Tail(t)) ELSE t

RECURSIVE rstrip(_)
rstrip(t) == IF t # <<>> /\ Last(t).c = " " THEN rstrip(SubSeq(t, 1, Len(t) - 1)) ELSE t

strip(t) == rstrip(lstrip(t))

\* str.replace(" ", "_")
replace_spaces(t) == [i \in 1..Len(t) |-> IF t[i].c = " " THEN Ch("_") ELSE t[i]]

\* safe_event_name: the characters fit for a file name, stripped, spaces as "_"
safe_event_name(event_name) == replace_spaces(strip(keep_safe(event_name)))

----------------------------------------------------------------------------
(* Numbers and text *)

DIGITS == <<"0", "1", "2", "3", "4", "5", "6", "7", "8", "9">>

isdigit(ch) == \E d \in 1..10 : DIGITS[d] = ch.c

digit_value(ch) == (CHOOSE d \in 1..10 : DIGITS[d] = ch.c) - 1

\* int(t) for a text of digits
RECURSIVE int_of(_)
int_of(t) ==
    IF t = <<>> THEN 0
    ELSE 10 * int_of(SubSeq(t, 1, Len(t) - 1)) + digit_value(Last(t))

\* str(n) for an integer
RECURSIVE str_int(_)
str_int(n) ==
    IF n < 0 THEN <<Ch("-")>> \o str_int(0 - n)
    ELSE IF n < 10 THEN <<Ch(DIGITS[n + 1])>>
    ELSE str_int(n \div 10) \o <<Ch(DIGITS[(n % 10) + 1])>>

\* a Python value that is an int or a str
py_int(n) == [is_int |-> TRUE, n |-> n, text |-> <<>>]
py_str(t) == [is_int |-> FALSE, n |-> 0, text |-> t]

\* f"{v}"
format(v) == IF v.is_int THEN str_int(v.n) ELSE v.text

\* time_range = f"{start_year}-{end_year}"
time_range_label(start_year, end_year) ==
    format(start_year) \o <<Ch("-")>> \o format(end_year)

----------------------------------------------------------------------------
(* The vault: a folder is a function from the paths of its files to their content *)

\* os.path.exists(filepath)
exists(dir, filepath) == filepath \in DOMAIN dir

\* open(filepath, "w") then f.write(full_content): the file holds full_content
write_file(dir, filepath, full_content) ==
    [f \in DOMAIN dir \cup {filepath} |-> IF f = filepath THEN full_content ELSE dir[f]]

\* what open(filepath, "w") alone leaves behind: an empty file
EMPTY_FILE == [empty |-> TRUE]

\* what the file system does with the write: "ok"; "open_fails": open raises and
\* makes no file; "write_fails": open made the file, write raises
IoOutcomes == {"ok", "open_fails", "write_fails"}

after_write(dir, filepath, full_content, io) ==
    CASE io = "ok" -> write_file(dir, filepath, full_content)
      [] io = "write_fails" -> write_file(dir, filepath, EMPTY_FILE)
      [] OTHER -> dir

\* the path of the file <safe_event_name>_<start>-<end>[_<count>].md of the event
\* folder: count = 0 stands for the name without a suffix
EventNotePath(safe_name, start_year, end_year, count) ==
    [name |-> safe_name, time_range |-> time_range_label(start_year, end_year),
     count |-> count]

\* the path of the file <safe_event_name>_d[_<count>].md of the AIdetails folder
DetailNotePath(safe_name, count) == [name |-> safe_name, count |-> count]

----------------------------------------------------------------------------
(* EventBot.save_event_to_obsidian *)

\* mutant: one suffix tried, without looking whether it is free
event_suffix_once(dir, safe_name, start_year, end_year, count) == count

\* `while os.path.exists(filepath)`: the first count from `count` on whose path is
\* free
RECURSIVE event_suffix(_, _, _, _, _)
event_suffix(dir, safe_name, start_year, end_year, count) ==
    IF exists(dir, EventNotePath(safe_name, start_year, end_year, count))
    THEN event_suffix(dir, safe_name, start_year, end_year, count + 1)
    ELSE count

\* the path save_event_to_obsidian writes to
event_filepath(dir, event_name, start_year, end_year) ==
    LET safe == safe_event_name(event_name)
    IN  IF exists(dir, EventNotePath(safe, start_year, end_year, 0))
        THEN EventNotePath(safe, start_year, end_year,
                           event_suffix(dir, safe, start_year, end_year, 1))
        ELSE EventNotePath(safe, start_year, end_year, 0)

\* full_content: front matter (event, time_range, tags), heading, content
event_note(event_name, start_year, end_year, content) ==
    [event |-> event_name, time_range |-> time_range_label(start_year, end_year),
     body |-> content]

\* the record kept of a save: the function, the path it chose, whether that path
\* existed when it was opened, what it returned (raised: the exception left it)
SaveRecord(fn, filepath, existed, io, raised, content) ==
    [made |-> TRUE, fn |-> fn, filepath |-> filepath, existed |-> existed,
     io |-> io, raised |-> raised, content |-> content]

NoSave == [made |-> FALSE, fn |-> "", filepath |-> <<>>, existed |-> FALSE,
           io |-> "ok", raised |-> FALSE, content |-> <<>>]

\* save_event_to_obsidian(event_name, start_year, end_year, content): the folder
\* after it; the write is not guarded, so an IOError leaves the function
save_event_to_obsidian(dir, event_name, start_year, end_year, content, io) ==
    LET filepath == event_filepath(dir, event_name, start_year, end_year)
    IN  [dir |-> after_write(dir, filepath,
                             event_note(event_name, start_year, end_year, content), io),
         rec |-> SaveRecord("save_event_to_obsidian", filepath,
                            exists(dir, filepath), io, io # "ok", content)]

----------------------------------------------------------------------------
(* JSON: a document is a sequence of tokens, as json.loads and json.dumps see it *)

\* the string literals of the documents: the keys the prompt of
\* generate_detail_for_event asks for, the two keys save_detail_to_obsidian reads
\* that the prompt does not name ("renwu" and "didian" stand for the Chinese words
\* for people and place), and values
JsonStrings ==
    {"title", "happened", "person", "places", "tags", "detailes", "renwu", "didian",
     "T", "H", "P", "L", "D", "p", "p, event,,q"}

JsonNumbers == {"7"}

JsonLiterals == {"null", "true", "false"}

\* the values json.loads builds: str, int, None/bool, list, dict (members in the
\* order of insertion)
JScalar(kind, text) == [kind |-> kind, text |-> text, items |-> <<>>, members |-> <<>>]

JString(text) == JScalar("string", text)

JArray(items) == [kind |-> "array", text |-> "", items |-> items, members |-> <<>>]

JObject(members) == [kind |-> "object", text |-> "", items |-> <<>>, members |-> members]

\* dict[key] = value: the value of a key already there is replaced in place
dict_set(members, key, value) ==
    IF \E k \in 1..Len(members) : members[k].key = key
    THEN [k \in 1..Len(members) |->
             IF members[k].key = key THEN [key |-> key, value |-> value] ELSE members[k]]
    ELSE Append(members, [key |-> key, value |-> value])

\* dict.get(key, default)
dict_get(members, key, default) ==
    IF \E k \in 1..Len(members) : members[k].key = key
    THEN members[CHOOSE k \in 1..Len(members) : members[k].key = key].value
    ELSE default

JsonFail == [ok |-> FALSE, value |-> JScalar("none", ""), next |-> 0]

JsonOk(value, next) == [ok |-> TRUE, value |-> value, next |-> next]

token_at(t, pos) == IF pos >= 1 /\ pos <= Len(t) THEN t[pos] ELSE ""

\* the decoder of json.loads from token pos on: the value read and the position
\* after it, or the JSONDecodeError
RECURSIVE parse_value(_, _)
RECURSIVE parse_items(_, _, _)
RECURSIVE parse_members(_, _, _)
parse_value(t, pos) ==
    LET tok == token_at(t, pos)
    IN  CASE tok \in JsonStrings -> JsonOk(JString(tok), pos + 1)
          [] tok \in JsonNumbers -> JsonOk(JScalar("number", tok), pos + 1)
          [] tok \in JsonLiterals -> JsonOk(JScalar("literal", tok), pos + 1)
          [] tok = "[" -> IF token_at(t, pos + 1) = "]"
                          THEN JsonOk(JArray(<<>>), pos + 2)
                          ELSE parse_items(t, pos + 1, <<>>)
          [] tok = "{" -> IF token_at(t, pos + 1) = "}"
                          THEN JsonOk(JObject(<<>>), pos + 2)
                          ELSE parse_members(t, pos + 1, <<>>)
          [] OTHER -> JsonFail

\* the elements of an array, after "[" or ","
parse_items(t, pos, items) ==
    LET v == parse_value(t, pos)
    IN  IF ~v.ok THEN JsonFail
        ELSE CASE token_at(t, v.next) = "," ->
                      parse_items(t, v.next + 1, Append(items, v.value))
               [] token_at(t, v.next) = "]" ->
                      JsonOk(JArray(Append(items, v.value)), v.next + 1)
               [] OTHER -> JsonFail

\* the members of an object, after "{" or ","
parse_members(t, pos, members) ==
    IF token_at(t, pos) \notin JsonStrings \/ token_at(t, pos + 1) # ":" THEN JsonFail
    ELSE LET v == parse_value(t, pos + 2)
         IN  IF ~v.ok THEN JsonFail
             ELSE CASE token_at(t, v.next) = "," ->
                           parse_members(t, v.next + 1,
                                         dict_set(members, t[pos], v.value))
                    [] token_at(t, v.next) = "}" ->
                           JsonOk(JObject(dict_set(members, t[pos], v.value)),
                                  v.next + 1)
                    [] OTHER -> JsonFail

\* json.loads(content): the whole text must be one value
json_loads(content) ==
    LET v == parse_value(content, 1)
    IN  IF v.ok /\ v.next = Len(content) + 1 THEN v ELSE JsonFail

\* json.dumps(value, ensure_ascii=False, indent=4), white space left out
RECURSIVE json_dumps(_)
RECURSIVE dumps_items(_)
RECURSIVE dumps_members(_)
json_dumps(value) ==
    CASE value.kind = "array" -> <<"[">> \o dumps_items(value.items) \o <<"]">>
      [] value.kind = "object" -> <<"{">> \o dumps_members(value.members) \o <<"}">>
      [] OTHER -> <<value.text>>

dumps_items(items) ==
    IF items = <<>> THEN <<>>
    ELSE json_dumps(Head(items))
         \o (IF Len(items) > 1 THEN <<",">> ELSE <<>>) \o dumps_items(Tail(items))

dumps_members(members) ==
    IF members = <<>> THEN <<>>
    ELSE <<Head(members).key, ":">> \o json_dumps(Head(members).value)
         \o (IF Len(members) > 1 THEN <<",">> ELSE <<>>) \o dumps_members(Tail(members))

----------------------------------------------------------------------------
(* DetailGenerator.save_detail_to_obsidian *)

\* mutant: the suffix loop stops one probe early
detail_suffix_once(dir, safe_name, count) == count

\* `while os.path.exists(filepath)` of save_detail_to_obsidian
RECURSIVE detail_suffix(_, _, _)
detail_suffix(dir, safe_name, count) ==
    IF exists(dir, DetailNotePath(safe_name, count))
    THEN detail_suffix(dir, safe_name, count + 1)
    ELSE count

\* the path save_detail_to_obsidian writes to
detail_filepath(dir, event_name) ==
    LET safe == safe_event_name(event_name)
    IN  IF exists(dir, DetailNotePath(safe, 0))
        THEN DetailNotePath(safe, detail_suffix(dir, safe, 1))
        ELSE DetailNotePath(safe, 0)

\* the defaults of the .get calls (the source's are Chinese): "unknown",
\* "history,event" and "no details"
UNKNOWN == JString("unknown")
DEFAULT_TAGS == JString("history-zh,event-zh")
NO_DETAILS == JString("no-details")

\* tags.split(",")
split_commas(text) ==
    CASE text = "p, event,,q" -> <<"p", " event", "", "q">>
      [] text = "history-zh,event-zh" -> <<"history-zh", "event-zh">>
      [] OTHER -> <<text>>

\* tag.strip()
strip_tag(tag) == IF tag = " event" THEN "event" ELSE tag

\* `for tag in tags.split(",")`: the stripped tags that are not empty and not yet
\* in the list are appended
RECURSIVE append_tags(_, _)
append_tags(tag_list, tags) ==
    IF tags = <<>> THEN tag_list
    ELSE LET tag == strip_tag(Head(tags))
         IN  append_tags(IF tag # "" /\ \A k \in 1..Len(tag_list) : tag_list[k] # tag
                         THEN Append(tag_list, tag) ELSE tag_list,
                         Tail(tags))

\* one line of the front matter: the field, where its value comes from ("json":
\* the document, "default": the default of .get, "event_name": the name of the
\* event) and the value
FrontField(field, members, key, default) ==
    [field |-> field,
     from |-> IF \E k \in 1..Len(members) : members[k].key = key THEN "json"
              ELSE IF field = "title" THEN "event_name" ELSE "default",
     value |-> dict_get(members, key, default)]

\* the try block of lines 252-296 raises an exception that is no JSONDecodeError:
\* content is JSON but no dict (.get fails) or its tags are no str (.split fails)
projection_raises(content) ==
    LET parsed == json_loads(content)
    IN  /\ parsed.ok
        /\ \/ parsed.value.kind # "object"
           \/ dict_get(parsed.value.members, "tags", DEFAULT_TAGS).kind # "string"

\* full_content built from the document: the front matter title, event, happened,
\* people, location, tags in that order, and the details
structured_note(event, members) ==
    LET tags == FrontField("tags", members, "tags", DEFAULT_TAGS)
        tag_list == append_tags(<<"event", "history", "detail">>,
                                split_commas(tags.value.text))
    IN  [event |-> event.name, original_file |-> event.original_file,
         front |-> << FrontField("title", members, "title", JString("")),
                      [field |-> "event", from |-> "event_name", value |-> JString("")],
                      FrontField("happened", members, "happened", UNKNOWN),
                      FrontField("people", members, "renwu", UNKNOWN),
                      FrontField("location", members, "didian", UNKNOWN),
                      [tags EXCEPT !.value =
                          JArray([k \in 1..Len(tag_list) |-> JString(tag_list[k])])] >>,
         details |-> FrontField("details", members, "detailes", NO_DETAILS)]

\* full_content of a detail note: built from the document when content is JSON,
\* else the event, the link back to the source note, and the content as it is
detail_note(event, content) ==
    IF json_loads(content).ok
    THEN structured_note(event, json_loads(content).value.members)
    ELSE [event |-> event.name, original_file |-> event.original_file, body |-> content]

\* save_detail_to_obsidian(event, content): the folder after it and the record;
\* the write is guarded: on an exception the function returns (None, None); the
\* building of full_content is guarded against JSONDecodeError only
save_detail_to_obsidian(dir, event, content, io) ==
    LET filepath == detail_filepath(dir, event.name)
    IN  IF projection_raises(content)
        THEN [dir |-> dir,
              rec |-> SaveRecord("save_detail_to_obsidian", filepath,
                                 exists(dir, filepath), io, TRUE, content)]
        ELSE [dir |-> after_write(dir, filepath, detail_note(event, content), io),
              rec |-> SaveRecord("save_detail_to_obsidian", filepath,
                                 exists(dir, filepath), io, FALSE, content)]

----------------------------------------------------------------------------
(* The two saves, called on their own *)

\* event names as typed: "a" and "a!" have the same safe name
EventNames == {Text(<<"a">>), Text(<<"a", "!">>)}

\* time ranges of the notes saved
SavedRanges == {<<py_int(0), py_int(1)>>, <<py_int(1), py_int(1)>>}

\* the path of an event-list note processed by the detail flow
SOURCE_FILE == EventNotePath(Text(<<"a">>), py_int(0), py_int(1), 0)

SaveEventToObsidian ==
    /\ Cardinality(DOMAIN event_dir) < MaxFiles
    /\ \E event_name \in EventNames, r \in SavedRanges, io \in IoOutcomes :
          LET s == save_event_to_obsidian(event_dir, event_name, r[1], r[2], <<"y">>, io)
          IN  /\ event_dir' = s.dir
              /\ lastSave' = s.rec
    /\ UNCHANGED <<call_count, total_tokens, lastCall, split, detail_dir, session, detail>>

SaveDetailToObsidian ==
    /\ Cardinality(DOMAIN detail_dir) < MaxFiles
    /\ \E event_name \in EventNames, io \in IoOutcomes :
          LET event == [name |-> event_name, original_file |-> SOURCE_FILE]
              s == save_detail_to_obsidian(detail_dir, event, <<"y">>, io)
          IN  /\ detail_dir' = s.dir
              /\ lastSave' = s.rec
    /\ UNCHANGED <<call_count, total_tokens, lastCall, split, event_dir, session, detail>>

----------------------------------------------------------------------------
(* EventBot.parse_time_range *)

\* the length of the run of digits of t that starts at position from
RECURSIVE digit_run(_, _)
digit_run(t, from) ==
    IF from <= Len(t) /\ isdigit(t[from]) THEN 1 + digit_run(t, from + 1) ELSE 0

\* re.match(r'(\d{1,4})-(\d{1,4})', time_range): anchored at the start only; the
\* groups are the longest runs of at most four digits
parse_time_range(time_range) ==
    LET n1 == digit_run(time_range, 1)
        n2 == Min(digit_run(time_range, n1 + 2), 4)
        matches == /\ 1 <= n1 /\ n1 <= 4
                   /\ n1 + 1 <= Len(time_range) /\ time_range[n1 + 1].c = "-"
                   /\ n2 >= 1
    IN  IF matches
        THEN [start_year |-> py_int(int_of(SubSeq(time_range, 1, n1))),
              end_year |-> py_int(int_of(SubSeq(time_range, n1 + 2, n1 + 1 + n2)))]
        ELSE [start_year |-> py_str(time_range), end_year |-> py_str(time_range)]

\* int(input(...).strip() or "3"), 3 on ValueError
parse_segments(typed) ==
    LET t == IF strip(typed) = <<>> THEN Text(<<"3">>) ELSE strip(typed)
        signed == Head(t).c \in {"-", "+"}
        digits == IF signed THEN Tail(t) ELSE t
    IN  IF digits # <<>> /\ digit_run(digits, 1) = Len(digits)
        THEN IF Head(t).c = "-" THEN 0 - int_of(digits) ELSE int_of(digits)
        ELSE 3

----------------------------------------------------------------------------
(* EventBot.get_event_for_time_segment *)

\* mutant: the budget compared with > instead of >=
budget_exceeded_strict(tt) == tt > MAX_TOKENS_TOTAL

\* if self.total_tokens >= config.MAX_TOKENS_TOTAL
budget_exceeded(tt) == tt >= MAX_TOKENS_TOTAL

\* the result of a request that is skipped: nothing asked of the transport
skipped(cc, tt) ==
    [full_content |-> <<>>, call_count |-> cc, total_tokens |-> tt, requests |-> 0,
     sleeps |-> <<>>, ret |-> BUDGET_EXCEEDED, escaped |-> FALSE]

\* get_event_for_time_segment: the budget check, then call_model with the
\* streaming default
get_event_for_time_segment(outcomes, cc, tt) ==
    IF budget_exceeded(tt) THEN skipped(cc, tt)
    ELSE call_model(TRUE, outcomes, cc, tt)

----------------------------------------------------------------------------
(* EventBot.interactive_session *)

\* what the user types at the three prompts
TimeRangeInputs ==
    {Text(<<"0", "-", "2">>), Text(<<"1", "-", "1">>), Text(<<"2", "-", "0">>),
     Text(<<"x">>)}

SegmentInputs == {Text(<<>>), Text(<<"2">>), Text(<<"0">>)}

SessionEventNames == {Text(<<"a">>)}

\* what the transport does to the requests of a session: an answer at once, an
\* answer after a non-2xx status, no answer at all, a malformed envelope
SessionOutcomeSeqs ==
    {[a \in 1..RETRY_ATTEMPTS |-> Outcome("ok", <<"y">>, 0)],
     [a \in 1..RETRY_ATTEMPTS |->
         IF a = 1 THEN Outcome("status", <<>>, 0) ELSE Outcome("ok", <<"y">>, 0)],
     [a \in 1..RETRY_ATTEMPTS |-> Outcome("timeout", <<>>, 0)],
     [a \in 1..RETRY_ATTEMPTS |-> Outcome("malformed", <<>>, 0)]}

\* config.API_KEY: the value of R1_API_KEY, empty when it is not set
ApiKeys == {"", "sk"}

\* at the prompt, no round running; rounds counts the rounds begun; api_key is
\* self.api_key of the instance; time_range and segments are the locals of the
\* round
AtPrompt(rounds) ==
    [pc |-> "idle", rounds |-> rounds, event_name |-> <<>>, segmented |-> FALSE,
     time_segments |-> <<>>, i |-> 0, generated |-> <<>>, saved_files |-> <<>>,
     api_key |-> "sk", time_range |-> <<>>, segments |-> 0]

\* the round is over: completed, cancelled by KeyboardInterrupt, or left by an
\* exception that `except Exception` reports; the loop prompts again
EndRound == [AtPrompt(session.rounds) EXCEPT !.api_key = session.api_key]

\* _check_config: a missing key is reported with logger.warning and nothing else;
\* nothing is raised
check_config(api_key) == [warned |-> api_key = "", raised |-> FALSE]

\* main of event_bot: bot = EventBot(), then bot.interactive_session(); an
\* exception out of the constructor would end the program before the session
main(api_key) ==
    IF check_config(api_key).raised
    THEN [AtPrompt(0) EXCEPT !.pc = "failed", !.api_key = api_key]
    ELSE [AtPrompt(0) EXCEPT !.api_key = api_key]

\* mutant: a range of one year is split like any other
round_segments_split_equal(time_range, segments) ==
    LET parsed == parse_time_range(time_range)
        start_year == parsed.start_year
        end_year == parsed.end_year
    IN  IF start_year.is_int /\ end_year.is_int
        THEN LET split_segments ==
                     split_time_range(start_year.n, end_year.n,
                                      IF segments >= 1 THEN segments ELSE 1)
             IN  [raised |-> FALSE, segmented |-> TRUE,
                  time_segments |->
                      [k \in 1..Len(split_segments) |->
                          <<py_int(split_segments[k][1]), py_int(split_segments[k][2])>>]]
        ELSE [raised |-> FALSE, segmented |-> FALSE,
              time_segments |-> <<<<start_year, end_year>>>>]

\* the prompts are answered and the range is parsed: the segments of the round
\* (time_segments, or the whole range as one), or the exception of the split
round_segments(time_range, segments) ==
    LET parsed == parse_time_range(time_range)
        start_year == parsed.start_year
        end_year == parsed.end_year
    IN  IF start_year.is_int /\ end_year.is_int /\ start_year.n # end_year.n
        THEN IF segments = 0
             THEN [raised |-> TRUE, segmented |-> TRUE, time_segments |-> <<>>]
             ELSE LET split_segments ==
                          IF segments < 0 THEN <<>>
                          ELSE split_time_range(start_year.n, end_year.n, segments)
                  IN  [raised |-> FALSE, segmented |-> TRUE,
                       time_segments |->
                           [k \in 1..Len(split_segments) |->
                               <<py_int(split_segments[k][1]),
                                 py_int(split_segments[k][2])>>]]
        ELSE [raised |-> FALSE, segmented |-> FALSE,
              time_segments |-> <<<<start_year, end_year>>>>]

\* one pass of `while True` up to the first request: the three inputs, the parse,
\* the split
StartRound ==
    /\ session.pc = "idle"
    /\ detail.pc = "idle"
    /\ session.rounds < MaxRounds
    /\ \E event_name \in SessionEventNames, time_range \in TimeRangeInputs,
          typed \in SegmentInputs :
          LET r == round_segments(time_range, parse_segments(typed))
          IN  session' =
                  IF r.raised \/ r.time_segments = <<>>
                  THEN [AtPrompt(session.rounds + 1) EXCEPT !.api_key = session.api_key]
                  ELSE [pc |-> "gen", rounds |-> session.rounds + 1,
                        event_name |-> event_name, segmented |-> r.segmented,
                        time_segments |-> r.time_segments, i |-> 1,
                        generated |-> <<>>, saved_files |-> <<>>,
                        api_key |-> session.api_key, time_range |-> time_range,
                        segments |-> parse_segments(typed)]
    /\ UNCHANGED <<call_count, total_tokens, lastCall, split, event_dir, detail_dir,
                   lastSave, detail>>

\* mutant: the content is kept in memory and the next segment is asked for; the
\* notes would be written after the loop
after_generation_buffered(content) ==
    IF session.i < Len(session.time_segments)
    THEN [session EXCEPT !.i = @ + 1, !.generated = Append(@, content)]
    ELSE [session EXCEPT !.pc = "save", !.generated = Append(@, content)]

\* content = self.get_event_for_time_segment(...) has returned: the next statement
\* is the save of that content
after_generation(content) ==
    [session EXCEPT !.pc = "save", !.generated = Append(@, content)]

\* content = self.get_event_for_time_segment(event_name, seg_start, seg_end)
GenerateSegment ==
    /\ session.pc = "gen"
    /\ \E outcomes \in SessionOutcomeSeqs :
          LET r == get_event_for_time_segment(outcomes, call_count, total_tokens)
          IN  /\ call_count' = r.call_count
              /\ total_tokens' = r.total_tokens
              /\ lastCall' = CallRecord("get_event_for_time_segment", TRUE, outcomes,
                                        call_count, total_tokens, r)
              /\ session' = IF r.escaped THEN EndRound ELSE after_generation(r.ret)
    /\ UNCHANGED <<split, event_dir, detail_dir, lastSave, detail>>

\* filepath = self.save_event_to_obsidian(event_name, seg_start, seg_end, content),
\* saved_files.append(filepath), and the step to the next segment
SaveSegment ==
    /\ session.pc = "save"
    /\ \E io \in IoOutcomes :
          LET seg == session.time_segments[session.i]
              s == save_event_to_obsidian(event_dir, session.event_name, seg[1], seg[2],
                                          Last(session.generated), io)
          IN  /\ event_dir' = s.dir
              /\ lastSave' = s.rec
              /\ session' =
                     IF s.rec.raised THEN EndRound
                     ELSE IF session.i < Len(session.time_segments)
                     THEN [session EXCEPT !.pc = "gen", !.i = @ + 1,
                                          !.saved_files = Append(@, s.rec.filepath)]
                     ELSE EndRound
    /\ UNCHANGED <<call_count, total_tokens, lastCall, split, detail_dir, detail>>

\* KeyboardInterrupt inside the try of the round: during a request, after some of
\* its attempts were counted; during a save, before the file is opened or between
\* open and write
InterruptRound ==
    /\ \/ /\ session.pc = "gen"
          /\ \E n \in 0..(IF budget_exceeded(total_tokens) THEN 0 ELSE RETRY_ATTEMPTS) :
                call_count' = call_count + n
          /\ UNCHANGED event_dir
       \/ /\ session.pc = "save"
          /\ LET seg == session.time_segments[session.i]
                 s == save_event_to_obsidian(event_dir, session.event_name, seg[1],
                                             seg[2], Last(session.generated),
                                             "write_fails")
             IN  event_dir' \in {event_dir, s.dir}
          /\ UNCHANGED call_count
    /\ session' = EndRound
    /\ UNCHANGED <<total_tokens, lastCall, split, detail_dir, lastSave, detail>>

\* the user types the word that ends the session, or KeyboardInterrupt at a prompt
Quit ==
    /\ session.pc = "idle"
    /\ detail.pc = "idle"
    /\ session' = [session EXCEPT !.pc = "done"]
    /\ UNCHANGED <<call_count, total_tokens, lastCall, split, event_dir, detail_dir,
                   lastSave, detail>>

\* requests made through the instance before the session: call_model asked
\* without streaming, answered at once with a usage
TokenCalls ==
    {[a \in 1..RETRY_ATTEMPTS |-> Outcome("ok", <<"y">>, u)] : u \in Usages \ {0}}

SpendTokens ==
    /\ call_count < MaxCalls
    /\ session.pc = "idle"
    /\ session.rounds = 0
    /\ detail.pc = "idle"
    /\ \E outcomes \in TokenCalls :
          LET r == call_model(FALSE, outcomes, call_count, total_tokens)
          IN  /\ call_count' = r.call_count
              /\ total_tokens' = r.total_tokens
              /\ lastCall' = CallRecord("call_model", FALSE, outcomes,
                                        call_count, total_tokens, r)
    /\ UNCHANGED <<split, event_dir, detail_dir, lastSave, session, detail>>

----------------------------------------------------------------------------
(* DetailGenerator.extract_events_from_file *)

\* content[a:b] of Python, positions counted from 0, b exclusive, both clamped
py_slice(t, a, b) ==
    LET lo == Min(a, Len(t))
        hi == Min(b, Len(t))
    IN  IF lo >= hi THEN <<>> ELSE SubSeq(t, lo + 1, hi)

is_brace(ch) == ch.c \in {"{", "}"}

\* the first position >= from (counted from 1) that holds a brace, Len(t) + 1 if none
RECURSIVE next_brace(_, _)
next_brace(t, from) ==
    IF from > Len(t) \/ is_brace(t[from]) THEN from ELSE next_brace(t, from + 1)

\* re.finditer(r'{([^{}]+)}', content) from position from (counted from 1) on: the
\* matches left to right, not overlapping, each as match.start(), match.end()
RECURSIVE finditer(_, _)
finditer(t, from) ==
    IF from > Len(t) THEN <<>>
    ELSE IF t[from].c # "{" THEN finditer(t, from + 1)
    ELSE LET close == next_brace(t, from + 1)
         IN  IF close <= Len(t) /\ t[close].c = "}" /\ close > from + 1
             THEN <<[start |-> from - 1, end |-> close]>> \o finditer(t, close + 1)
             ELSE finditer(t, from + 1)

\* the events of the matches: the stripped group 1 as name, group 0 and its
\* position kept for the write-back; a match whose name is empty is skipped
RECURSIVE events_of(_, _, _)
events_of(t, file_path, matches) ==
    IF matches = <<>> THEN <<>>
    ELSE LET m == Head(matches)
             event_text == strip(py_slice(t, m.start + 1, m.end - 1))
         IN  (IF event_text = <<>> THEN <<>>
              ELSE <<[name |-> event_text,
                      original_file |-> file_path,
                      original_line_text |-> py_slice(t, m.start, m.end),
                      start_position |-> m.start,
                      end_position |-> m.end]>>)
             \o events_of(t, file_path, Tail(matches))

\* mutant: the events returned last match first
extract_events_reversed(dir, file_path) ==
    LET events == events_of(dir[file_path], file_path, finditer(dir[file_path], 1))
    IN  [k \in 1..Len(events) |-> events[Len(events) + 1 - k]]

\* extract_events_from_file(file_path), the file read from the event folder
extract_events_from_file(dir, file_path) ==
    events_of(dir[file_path], file_path, finditer(dir[file_path], 1))

----------------------------------------------------------------------------
(* DetailGenerator.generate_detail_for_event *)

\* "error generating the detail: <exception>", returned when call_model raises
GENERATE_FAILED == <<"error-generating-detail">>

\* the first position >= from of content that holds token tok, Len(content) + 1 if
\* none
RECURSIVE find_token(_, _, _)
find_token(content, tok, from) ==
    IF from > Len(content) \/ content[from] = tok THEN from
    ELSE find_token(content, tok, from + 1)

\* re.search of the fenced block ("fence-json" stands for the three backquotes
\* followed by json, "fence" for the three backquotes that close the block):
\* group 1 when the fence is found, else the whole content
json_content(content) ==
    LET open == find_token(content, "fence-json", 1)
        close == find_token(content, "fence", open + 1)
    IN  IF open <= Len(content) /\ close <= Len(content)
        THEN SubSeq(content, open + 1, close - 1)
        ELSE content

\* json.dumps(json.loads(json_content)), or content as it is on JSONDecodeError
formatted_json(content) ==
    LET parsed == json_loads(json_content(content))
    IN  IF parsed.ok THEN json_dumps(parsed.value) ELSE content

\* generate_detail_for_event(event): call_model with the streaming default, no
\* budget check before it; an exception out of call_model becomes a message
generate_detail_for_event(outcomes, cc, tt) ==
    LET r == call_model(TRUE, outcomes, cc, tt)
    IN  IF r.escaped THEN [r EXCEPT !.ret = GENERATE_FAILED, !.escaped = FALSE]
        ELSE [r EXCEPT !.ret = formatted_json(r.ret)]

\* `"<error>" in detail_content`: the two-character word for "error" occurs in the
\* content; of the fixed messages only UNKNOWN_ERROR holds it
has_error_word(content) ==
    \E k \in 1..Len(content) : content[k] \in {"unknown-error", "error-word"}

----------------------------------------------------------------------------
(* DetailGenerator.update_event_list_with_link *)

\* the character that stands for the relative path of a detail note
PathCh(detail_link) == [c |-> "path", p |-> <<detail_link>>]

\* f" [[{detail_link}|<label>]]"
link_annotation(detail_link) ==
    Text(<<" ", "[", "[">>) \o <<PathCh(detail_link)>> \o Text(<<"|", "d", "]", "]">>)

\* new_content = content[:start_pos] + new_line + content[end_pos:]
new_content(content, event, detail_link) ==
    py_slice(content, 0, event.start_position)
    \o event.original_line_text \o link_annotation(detail_link)
    \o py_slice(content, event.end_position, Len(content))

\* what the file system does with the rewrite: "ok"; "read_fails": the file cannot
\* be read; "open_fails": it cannot be opened for writing; "write_fails": it was
\* opened, so truncated, and the write raises
LinkIoOutcomes == {"ok", "read_fails", "open_fails", "write_fails"}

\* update_event_list_with_link(event, detail_link): the folder after it and the
\* value returned; any exception is reported and gives False
update_event_list_with_link(dir, event, detail_link, io) ==
    LET file == event.original_file
        content == dir[file]
    IN  CASE io = "ok" ->
                [dir |-> write_file(dir, file, new_content(content, event, detail_link)),
                 returned |-> TRUE]
          [] io = "write_fails" ->
                [dir |-> write_file(dir, file, <<>>), returned |-> FALSE]
          [] OTHER -> [dir |-> dir, returned |-> FALSE]

----------------------------------------------------------------------------
(* DetailGenerator.process_event_list_file *)

\* the pieces an event-list note is made of: markers, a marker with white space,
\* a marker without a name, other text, braces without a partner
SourcePieces ==
    {Text(<<"{", "a", "}">>), Text(<<"{", " ", "a", "}">>), Text(<<"{", " ", "}">>),
     Text(<<"b">>), Text(<<"{">>), Text(<<"}">>)}

RECURSIVE SourceTextsOf(_)
SourceTextsOf(n) ==
    IF n = 0 THEN {<<>>}
    ELSE SourceTextsOf(n - 1)
         \cup {t \o q : t \in SourceTextsOf(n - 1), q \in SourcePieces}

\* the notes the event folder can hold when the detail generator starts
SourceTexts == SourceTextsOf(MaxPieces)

\* what the model answers: the document the prompt asks for, with the keys title,
\* happened, person, places, tags, detailes
DOC_SCHEMA ==
    <<"{", "title", ":", "T", ",", "happened", ":", "H", ",", "person", ":", "P", ",",
      "places", ":", "L", ",", "tags", ":", "p, event,,q", ",", "detailes", ":", "D",
      "}">>

\* valid JSON of other shapes: an array, an object whose tags are a list, a number
DOC_ARRAY == <<"[", "T", "]">>

DOC_TAGS_LIST == <<"{", "title", ":", "T", ",", "tags", ":", "[", "p", "]", "}">>

DOC_NUMBER == <<"7">>

\* the contents the model sends: prose, the document, the document in a fenced
\* block after a word of prose, and the other shapes
DetailContents ==
    {<<"y">>, DOC_SCHEMA, <<"y", "fence-json">> \o DOC_SCHEMA \o <<"fence">>,
     DOC_ARRAY, DOC_TAGS_LIST, DOC_NUMBER}

\* what the transport does to the requests of the detail flow
DetailOutcomeSeqs ==
    {[a \in 1..RETRY_ATTEMPTS |-> Outcome("ok", c, 0)] : c \in DetailContents}
    \cup {[a \in 1..RETRY_ATTEMPTS |-> Outcome("timeout", <<>>, 0)],
          [a \in 1..RETRY_ATTEMPTS |-> Outcome("malformed", <<>>, 0)]}

NoUpdate == [made |-> FALSE, event |-> <<>>, before |-> <<>>, after |-> <<>>,
             returned |-> FALSE]

\* not started: nothing extracted
NotStarted ==
    [pc |-> "idle", events |-> <<>>, i |-> 0, detail_content |-> <<>>,
     rel_detail_path |-> <<>>, successful_details |-> 0,
     text0 |-> <<>>, links |-> <<>>, edited |-> FALSE, last_update |-> NoUpdate]

\* the program has ended before the file was done (how: "interrupted" by
\* KeyboardInterrupt, "crashed" by an exception that main reports): the locals of
\* process_event_list_file are gone
Ended(how) == [NotStarted EXCEPT !.pc = how]

\* the loop moves to the next event, or the function returns
next_event(d) ==
    IF d.i < Len(d.events)
    THEN [d EXCEPT !.pc = "generate", !.i = @ + 1, !.detail_content = <<>>,
                   !.rel_detail_path = <<>>]
    ELSE [d EXCEPT !.pc = "finished", !.detail_content = <<>>, !.rel_detail_path = <<>>]

\* events = self.extract_events_from_file(file_path); `if not events: return 0, 0`
StartFile ==
    /\ detail.pc = "idle"
    /\ session.pc = "idle"
    /\ session.rounds = 0
    /\ LET events == extract_events_from_file(event_dir, SOURCE_FILE)
       IN  detail' = [detail EXCEPT
               !.pc = IF events = <<>> THEN "finished" ELSE "generate",
               !.events = events,
               !.i = IF events = <<>> THEN 0 ELSE 1,
               !.text0 = event_dir[SOURCE_FILE]]
    /\ UNCHANGED <<call_count, total_tokens, lastCall, split, event_dir, detail_dir,
                   lastSave, session>>

\* detail_content = self.generate_detail_for_event(event), and the test that skips
\* the event
GenerateDetail ==
    /\ detail.pc = "generate"
    /\ \E outcomes \in DetailOutcomeSeqs :
          LET r == generate_detail_for_event(outcomes, call_count, total_tokens)
          IN  /\ call_count' = r.call_count
              /\ total_tokens' = r.total_tokens
              /\ lastCall' = CallRecord("generate_detail_for_event", TRUE, outcomes,
                                        call_count, total_tokens, r)
              /\ detail' = IF r.ret = <<>> \/ has_error_word(r.ret)
                           THEN next_event(detail)
                           ELSE [detail EXCEPT !.pc = "save", !.detail_content = r.ret]
    /\ UNCHANGED <<split, event_dir, detail_dir, lastSave, session>>

\* filepath, rel_detail_path = self.save_detail_to_obsidian(event, detail_content);
\* an exception out of the save leaves process_event_list_file and
\* process_all_event_lists, and main reports it and ends the program
SaveDetail ==
    /\ detail.pc = "save"
    /\ \E io \in IoOutcomes :
          LET s == save_detail_to_obsidian(detail_dir, detail.events[detail.i],
                                           detail.detail_content, io)
          IN  /\ detail_dir' = s.dir
              /\ lastSave' = s.rec
              /\ detail' = IF s.rec.raised
                           THEN Ended("crashed")
                           ELSE IF io = "ok"
                           THEN [detail EXCEPT !.pc = "link",
                                               !.rel_detail_path = s.rec.filepath]
                           ELSE next_event(detail)
    /\ UNCHANGED <<call_count, total_tokens, lastCall, split, event_dir, session>>

\* updated = self.update_event_list_with_link(event, rel_detail_path)
UpdateLink ==
    /\ detail.pc = "link"
    /\ \E io \in LinkIoOutcomes :
          LET event == detail.events[detail.i]
              u == update_event_list_with_link(event_dir, event,
                                               detail.rel_detail_path, io)
              d == [detail EXCEPT
                       !.successful_details = IF u.returned THEN @ + 1 ELSE @,
                       !.links = IF u.returned
                                 THEN Append(@, [k |-> detail.i,
                                                 path |-> detail.rel_detail_path])
                                 ELSE @,
                       !.last_update = [made |-> TRUE, event |-> event,
                                        before |-> event_dir[SOURCE_FILE],
                                        after |-> u.dir[SOURCE_FILE],
                                        returned |-> u.returned]]
          IN  /\ event_dir' = u.dir
              /\ detail' = next_event(d)
    /\ UNCHANGED <<call_count, total_tokens, lastCall, split, detail_dir, lastSave,
                   session>>

\* KeyboardInterrupt while a file is processed; it is not an Exception, so it
\* leaves every function and main ends the program. During a request some attempts
\* may have been counted; during a save the detail note may have been opened;
\* during the rewrite of the source note the file may not have been opened yet,
\* may have been opened (truncated) and not yet written, or may be written
InterruptDetail ==
    /\ \/ /\ detail.pc = "generate"
          /\ \E n \in 0..RETRY_ATTEMPTS : call_count' = call_count + n
          /\ UNCHANGED <<event_dir, detail_dir>>
       \/ /\ detail.pc = "save"
          /\ detail_dir' \in
                {detail_dir,
                 save_detail_to_obsidian(detail_dir, detail.events[detail.i],
                                         detail.detail_content, "write_fails").dir}
          /\ UNCHANGED <<call_count, event_dir>>
       \/ /\ detail.pc = "link"
          /\ event_dir' \in
                {event_dir,
                 write_file(event_dir, SOURCE_FILE, <<>>),
                 update_event_list_with_link(event_dir, detail.events[detail.i],
                                             detail.rel_detail_path, "ok").dir}
          /\ UNCHANGED <<call_count, detail_dir>>
    /\ detail' = Ended("interrupted")
    /\ UNCHANGED <<total_tokens, lastCall, split, lastSave, session>>

\* the user edits the source note in the vault while the file is processed: a
\* character typed at its beginning
EditSource ==
    /\ detail.pc \in {"generate", "save", "link"}
    /\ ~detail.edited
    /\ event_dir' = write_file(event_dir, SOURCE_FILE,
                               <<Ch("b")>> \o event_dir[SOURCE_FILE])
    /\ detail' = [detail EXCEPT !.edited = TRUE]
    /\ UNCHANGED <<call_count, total_tokens, lastCall, split, detail_dir, lastSave,
                   session>>

----------------------------------------------------------------------------
(* Initial state: a fresh EventBot, empty folders, nothing running *)

Init ==
    /\ call_count = 0
    /\ total_tokens = 0
    /\ lastCall = NoCall
    /\ split = NoSplit
    /\ event_dir = <<>>
    /\ detail_dir = <<>>
    /\ lastSave = NoSave
    /\ session = AtPrompt(0)
    /\ detail = NotStarted

Next ==
    \/ SpendTokens
    \/ StartRound
    \/ GenerateSegment
    \/ SaveSegment
    \/ InterruptRound
    \/ Quit

\* event_bot's main has run the constructor, with or without a key in the
\* environment
InitMain ==
    /\ call_count = 0
    /\ total_tokens = 0
    /\ lastCall = NoCall
    /\ split = NoSplit
    /\ event_dir = <<>>
    /\ detail_dir = <<>>
    /\ lastSave = NoSave
    /\ \E api_key \in ApiKeys : session = main(api_key)
    /\ detail = NotStarted

Spec == InitMain /\ [][Next]_vars

\* the detail generator starts on a vault whose event folder holds one note
InitDetail ==
    /\ call_count = 0
    /\ total_tokens = 0
    /\ lastCall = NoCall
    /\ split = NoSplit
    /\ \E text \in SourceTexts : event_dir = write_file(<<>>, SOURCE_FILE, text)
    /\ detail_dir = <<>>
    /\ lastSave = NoSave
    /\ session = AtPrompt(0)
    /\ detail = NotStarted

NextDetail ==
    \/ SpendTokens
    \/ StartFile
    \/ GenerateDetail
    \/ SaveDetail
    \/ UpdateLink
    \/ InterruptDetail
    \/ EditSource

SpecDetail == InitDetail /\ [][NextDetail]_vars

\* the scan of the notes alone, and the user's edits
NextExtract == StartFile \/ EditSource

SpecExtract == InitDetail /\ [][NextExtract]_vars

NextSplit == SplitTimeRange

SpecSplit == Init /\ [][NextSplit]_vars

NextCall == CallModel

SpecCall == Init /\ [][NextCall]_vars

NextSave == SaveEventToObsidian \/ SaveDetailToObsidian

SpecSave == Init /\ [][NextSave]_vars

\* the program as event_bot's main runs it: the constructor, then
\* interactive_session, the only caller of the instance's methods
NextSession ==
    \/ StartRound
    \/ GenerateSegment
    \/ SaveSegment
    \/ InterruptRound
    \/ Quit

SpecSession == InitMain /\ [][NextSession]_vars

----------------------------------------------------------------------------
(* C1 *)

\* the years a list of segments covers, with multiplicity
CoverCount(segs, y) == Cardinality({k \in 1..Len(segs) : segs[k][1] <= y /\ y <= segs[k][2]})

\* C1: for start <= end and count >= 1, split_time_range returns segments that are
\* sorted ascending, each with segment_start <= segment_end, that cover every year
\* of [start, end] exactly once and no year outside it, whose last segment_end is
\* end, and that are at most count.
C1_SplitPartitions ==
    (split.called /\ split.start_year <= split.end_year /\ split.segments >= 1) =>
        LET segs == split.time_segments
        IN  /\ Len(segs) >= 1
            /\ Len(segs) <= split.segments
            /\ \A k \in 1..Len(segs) : segs[k][1] <= segs[k][2]
            /\ \A k \in 1..(Len(segs) - 1) : segs[k][2] < segs[k + 1][1]
            /\ Last(segs)[2] = split.end_year
            /\ \A y \in (0 - 1)..(MaxYear + 2) :
                   CoverCount(segs, y) =
                       IF split.start_year <= y /\ y <= split.end_year THEN 1 ELSE 0

\* the call split a range of several years into several segments, the last one shorter
C1_Witness ==
    /\ split.called
    /\ split.start_year < split.end_year
    /\ Len(split.time_segments) >= 3
    /\ Len(split.time_segments) < split.segments

----------------------------------------------------------------------------
(* C4 *)

\* timeout, connection error, non-2xx status, a stream that breaks
TransportFailures == {"timeout", "status", "broken"}

AllAttemptsFailed ==
    /\ lastCall.made
    /\ lastCall.caller = "call_model"
    /\ \A i \in 1..Len(lastCall.attempts) : lastCall.attempts[i].kind \in TransportFailures

----------------------------------------------------------------------------
(* C7 *)

AttemptsOfKind(kinds) ==
    Cardinality({i \in 1..Len(lastCall.attempts) : lastCall.attempts[i].kind \in kinds})

\* the usage reported by the attempt that succeeded, if one did
ReportedUsage ==
    IF lastCall.attempts # <<>> /\ Last(lastCall.attempts).kind = "ok"
    THEN Last(lastCall.attempts).usage ELSE 0

\* C7 as stated: call_count is incremented on every attempt that receives an HTTP
\* response, of success or failure (non-2xx) status, and on no attempt without a
\* response; total_tokens is incremented by the reported usage exactly on success.
C7_CountsEveryResponse ==
    lastCall.made =>
        /\ lastCall.cc_after - lastCall.cc_before =
               AttemptsOfKind({"ok", "broken", "malformed", "status"})
        /\ lastCall.tt_after - lastCall.tt_before = ReportedUsage

\* C7 amended: call_count is incremented on every attempt whose response has a 2xx
\* status, whether or not its body is then read to the end, and on no attempt that
\* receives no response or a non-2xx status; total_tokens is incremented by the
\* reported usage exactly on success.
C7_CountsEvery2xxResponse ==
    lastCall.made =>
        /\ lastCall.cc_after - lastCall.cc_before =
               AttemptsOfKind({"ok", "broken", "malformed"})
        /\ lastCall.tt_after - lastCall.tt_before = ReportedUsage
        /\ call_count = lastCall.cc_after
        /\ total_tokens = lastCall.tt_after

\* an invocation that met a non-2xx status, then a 2xx response whose stream broke,
\* then succeeded
C7_Witness ==
    /\ lastCall.made
    /\ Len(lastCall.attempts) = 3
    /\ lastCall.attempts[1].kind = "status"
    /\ lastCall.attempts[2].kind = "broken"
    /\ lastCall.attempts[3].kind = "ok"
    /\ call_count = lastCall.cc_before + 2

----------------------------------------------------------------------------
(* C8 *)

\* the same path with another suffix
WithCount(filepath, k) == [filepath EXCEPT !.count = k]

\* C8: save_event_to_obsidian and save_detail_to_obsidian never overwrite a file:
\* the path written did not exist in its folder just before the write, every file
\* that existed keeps its content, and the suffix chosen is N exactly when the base
\* name and its variants _1 .. _(N-1) existed, so that successive saves of one base
\* name get the suffixes 1, 2, ... in order.
C8_NeverOverwrites ==
    [][ /\ \A f \in DOMAIN event_dir :
              f \in DOMAIN event_dir' /\ event_dir'[f] = event_dir[f]
        /\ \A f \in DOMAIN detail_dir :
              f \in DOMAIN detail_dir' /\ detail_dir'[f] = detail_dir[f]
        /\ lastSave'.made =>
              LET dir == IF lastSave'.fn = "save_event_to_obsidian"
                         THEN event_dir ELSE detail_dir
                  f == lastSave'.filepath
              IN  /\ f \notin DOMAIN dir
                  /\ ~lastSave'.existed
                  /\ \A k \in 0..(f.count - 1) : WithCount(f, k) \in DOMAIN dir
      ]_vars

\* the event folder holds a base name and its variants _1 and _2, the detail folder
\* a base name and its variant _1, and the files of one base name differ in content
C8_Witness ==
    /\ \E f \in DOMAIN event_dir :
          /\ f.count = 2
          /\ event_dir[WithCount(f, 0)] # event_dir[WithCount(f, 1)]
    /\ \E f \in DOMAIN detail_dir :
          /\ f.count = 1
          /\ detail_dir[WithCount(f, 0)] # detail_dir[f]

----------------------------------------------------------------------------
(* C6 *)

SkippedSegmentRequest ==
    /\ lastCall.made
    /\ lastCall.caller = "get_event_for_time_segment"
    /\ lastCall.tt_before >= MAX_TOKENS_TOTAL

\* C6: when total_tokens is already >= MAX_TOKENS_TOTAL at the call of
\* get_event_for_time_segment, it returns the budget-exceeded sentinel, no request
\* is made of the transport, and call_count and total_tokens are unchanged.
C6_BudgetSkipLeavesCounters ==
    SkippedSegmentRequest =>
        /\ lastCall.ret = BUDGET_EXCEEDED
        /\ lastCall.requests = 0
        /\ lastCall.attempts = <<>>
        /\ lastCall.cc_after = lastCall.cc_before
        /\ lastCall.tt_after = lastCall.tt_before
        /\ session.pc = "save" =>
               /\ Last(session.generated) = BUDGET_EXCEEDED
               /\ call_count = lastCall.cc_before
               /\ total_tokens = lastCall.tt_before

\* a segment was asked for with total_tokens exactly at MAX_TOKENS_TOTAL, after
\* calls that were counted
C6_Witness ==
    /\ SkippedSegmentRequest
    /\ lastCall.tt_before = MAX_TOKENS_TOTAL
    /\ lastCall.cc_before > 0
    /\ session.pc = "save"

----------------------------------------------------------------------------
(* C9 *)

\* the note of segment k of the round is in the event folder, with the content
\* generated for it
SegmentNoteOnDisk(k) ==
    /\ k <= Len(session.saved_files)
    /\ session.saved_files[k] \in DOMAIN event_dir
    /\ event_dir[session.saved_files[k]] =
           event_note(session.event_name, session.time_segments[k][1],
                      session.time_segments[k][2], session.generated[k])

\* C9: in the segmented collection flow the note of segment i is written after its
\* generation returns and before the request for segment i+1 is issued: whenever a
\* request is about to be issued or a save is under way, every segment whose
\* generation has returned, except the one being saved, has its note on disk.
C9_SavedBeforeNextRequest ==
    (session.pc \in {"gen", "save"} /\ session.segmented) =>
        /\ Len(session.generated) = IF session.pc = "save" THEN session.i
                                                            ELSE session.i - 1
        /\ \A k \in 1..Len(session.generated) :
               \/ session.pc = "save" /\ k = session.i
               \/ SegmentNoteOnDisk(k)

\* the request for the third segment is about to be issued, the notes of the first
\* two are on disk
C9_Witness ==
    /\ session.pc = "gen"
    /\ session.segmented
    /\ session.i = 3
    /\ SegmentNoteOnDisk(1)
    /\ SegmentNoteOnDisk(2)

----------------------------------------------------------------------------
(* C2 *)

\* text with the link annotation of each of the events 1..k put right after the
\* event's marker, the positions being those of text
RECURSIVE WithLinks(_, _, _, _)
WithLinks(text, events, links, k) ==
    IF k = 0 THEN text
    ELSE WithLinks(py_slice(text, 0, events[k].end_position)
                       \o link_annotation(links[k].path)
                       \o py_slice(text, events[k].end_position, Len(text)),
                   events, links, k - 1)

EventNamesOf(events) == [k \in 1..Len(events) |-> events[k].name]

\* the file was processed to its end, every event got its detail generated, saved
\* and linked, and nobody else touched the note
AllEventsLinked ==
    /\ detail.pc = "finished"
    /\ detail.events # <<>>
    /\ detail.successful_details = Len(detail.events)
    /\ ~detail.edited

\* C2: after process_event_list_file has extracted the events of a note with one
\* or more markers and has, for each event in order, generated a detail, saved it
\* and written the link back, the note holds every original marker intact, each
\* followed by exactly one link annotation to its detail note, all other text
\* unchanged, and extracting again gives the same sequence of event names.
C2_RoundTrip ==
    AllEventsLinked =>
        /\ event_dir[SOURCE_FILE] =
               WithLinks(detail.text0, detail.events, detail.links, Len(detail.events))
        /\ EventNamesOf(extract_events_from_file(event_dir, SOURCE_FILE)) =
               EventNamesOf(detail.events)

----------------------------------------------------------------------------
(* C3 *)

\* the latest write-back found other text than the event's marker at the event's
\* recorded positions
OriginalTextGone ==
    /\ detail.last_update.made
    /\ py_slice(detail.last_update.before, detail.last_update.event.start_position,
                detail.last_update.event.end_position)
           # detail.last_update.event.original_line_text

\* C3: when, at write-back time, the text of the source file at the event's
\* recorded positions is not the event's original matched text,
\* update_event_list_with_link returns False and leaves the source file unchanged.
C3_StaleOffsetsRefused ==
    OriginalTextGone =>
        /\ ~detail.last_update.returned
        /\ detail.last_update.after = detail.last_update.before

----------------------------------------------------------------------------
(* C5 *)

\* C5: a generation request issued with total_tokens >= MAX_TOKENS_TOTAL, by
\* get_event_for_time_segment or by generate_detail_for_event, is skipped: the
\* budget-exceeded sentinel is returned and the transport is not contacted.
C5_EveryRequestGated ==
    ( /\ lastCall.made
      /\ lastCall.caller \in {"get_event_for_time_segment", "generate_detail_for_event"}
      /\ lastCall.tt_before >= MAX_TOKENS_TOTAL ) =>
        /\ lastCall.requests = 0
        /\ lastCall.ret = BUDGET_EXCEEDED

----------------------------------------------------------------------------
(* C10 *)

\* the files of folder before are all in folder after, each with the content it
\* had or with the content patched (patched[f]) in its place
KeptOrPatched(before, after, patched) ==
    \A f \in DOMAIN before :
        /\ f \in DOMAIN after
        /\ after[f] = before[f] \/ after[f] \in patched

\* the source note with the back-link that is being written
CompletedPatch ==
    IF detail.pc = "link"
    THEN {new_content(event_dir[SOURCE_FILE], detail.events[detail.i],
                      detail.rel_detail_path)}
    ELSE {}

\* C10: a keyboard interrupt, wherever it arrives, leaves every note that existed
\* with its content, or, for the source note being rewritten, with the completed
\* back-link patch: no note is left truncated or partially written.
C10_InterruptKeepsNotes ==
    [][ (detail.pc # "interrupted" /\ detail'.pc = "interrupted") =>
            /\ KeptOrPatched(event_dir, event_dir', CompletedPatch)
            /\ KeptOrPatched(detail_dir, detail_dir', {})
      ]_vars

----------------------------------------------------------------------------
(* C11 *)

\* a save of a detail note whose file could be opened and written
DetailSaveDone ==
    /\ lastSave.made
    /\ lastSave.fn = "save_detail_to_obsidian"
    /\ lastSave.io = "ok"

\* content is a JSON object whose tags, if any, are a string: the structured
\* schema can be read off it
Projectable(content) ==
    /\ json_loads(content).ok
    /\ ~projection_raises(content)

\* the note holds content as it is
EmbedsRaw(note, content) ==
    /\ "body" \in DOMAIN note
    /\ note.body = content

\* C11: save_detail_to_obsidian never drops content: whatever the content passed
\* (a JSON object, JSON of another shape, no JSON at all), no exception leaves the
\* save and a note is written, and when the content cannot be parsed and projected
\* as the structured schema the note holds the raw text verbatim.
C11_DetailNeverDropsContent ==
    DetailSaveDone =>
        /\ ~lastSave.raised
        /\ lastSave.filepath \in DOMAIN detail_dir
        /\ ~Projectable(lastSave.content) =>
               EmbedsRaw(detail_dir[lastSave.filepath], lastSave.content)

----------------------------------------------------------------------------
(* C13 *)

\* content is a document with the six keys of the prompt, all of them strings
ConformsToPromptSchema(content) ==
    /\ json_loads(content).ok
    /\ json_loads(content).value.kind = "object"
    /\ \A key \in {"title", "happened", "person", "places", "tags", "detailes"} :
          dict_get(json_loads(content).value.members, key, UNKNOWN).kind = "string"
          /\ \E k \in 1..Len(json_loads(content).value.members) :
                json_loads(content).value.members[k].key = key

\* the position of a field in the front matter, 0 if it is not there
FrontPosition(note, field) ==
    IF \E k \in 1..Len(note.front) : note.front[k].field = field
    THEN CHOOSE k \in 1..Len(note.front) : note.front[k].field = field
    ELSE 0

\* the front matter line of a field carries the value the document has under key
CarriesValue(note, field, content, key) ==
    LET k == FrontPosition(note, field)
    IN  /\ k > 0
        /\ note.front[k].from = "json"
        /\ note.front[k].value = dict_get(json_loads(content).value.members, key, UNKNOWN)

\* C13: when the content passed to save_detail_to_obsidian is valid JSON with the
\* keys of the prompt (title, happened, person, places, tags, detailes), the front
\* matter of the note written has title, event, happened, people, tags in that
\* order, with the title, the happened value, the person value as people and the
\* tags of the document, none replaced by a default.
C13_SchemaFieldsCarried ==
    (DetailSaveDone /\ ConformsToPromptSchema(lastSave.content)) =>
        /\ ~lastSave.raised
        /\ lastSave.filepath \in DOMAIN detail_dir
        /\ LET note == detail_dir[lastSave.filepath]
               members == json_loads(lastSave.content).value.members
               tags == note.front[FrontPosition(note, "tags")]
           IN  /\ "front" \in DOMAIN note
               /\ 0 < FrontPosition(note, "title")
               /\ FrontPosition(note, "title") < FrontPosition(note, "event")
               /\ FrontPosition(note, "event") < FrontPosition(note, "happened")
               /\ FrontPosition(note, "happened") < FrontPosition(note, "people")
               /\ FrontPosition(note, "people") < FrontPosition(note, "tags")
               /\ CarriesValue(note, "title", lastSave.content, "title")
               /\ CarriesValue(note, "happened", lastSave.content, "happened")
               /\ CarriesValue(note, "people", lastSave.content, "person")
               /\ tags.from = "json"
               /\ \A t \in {"p", "q"} :
                     \E k \in 1..Len(tags.value.items) : tags.value.items[k].text = t


----------------------------------------------------------------------------
(* C12 *)

\* the write of the note of a segment that is not the last fails
SegmentWriteFails ==
    /\ SaveSegment
    /\ session.segmented
    /\ session.i < Len(session.time_segments)
    /\ lastSave'.io # "ok"

\* the write of the detail note of an event that is not the last fails
DetailWriteFails ==
    /\ SaveDetail
    /\ detail.i < Len(detail.events)
    /\ ~projection_raises(detail.detail_content)
    /\ lastSave'.io # "ok"

\* C12: an I/O failure while one note is written aborts the save of that note only:
\* in the segmented flow the next segment of the event is generated next, in the
\* detail flow the next event of the file is generated next.
C12_WriteFailureContinues ==
    [][ /\ SegmentWriteFails =>
              /\ session'.pc = "gen"
              /\ session'.i = session.i + 1
        /\ DetailWriteFails =>
              /\ detail'.pc = "generate"
              /\ detail'.i = detail.i + 1
      ]_vars


----------------------------------------------------------------------------
(* C14 *)

\* C14: with API_KEY empty, event_bot's main ends with an error before the
\* interactive session starts: the session is never at its prompt nor in a round,
\* and no request is made of the transport.
C14_MissingKeyFatal ==
    session.api_key = "" =>
        /\ session.pc \notin {"idle", "gen", "save"}
        /\ session.rounds = 0
        /\ lastCall.requests = 0


----------------------------------------------------------------------------
(* C15 *)

\* C15: over any sequence of model calls on one EventBot instance (answered,
\* failed, retried, streaming or not, skipped for the budget) call_count and
\* total_tokens never decrease, and so are never reset to 0.
C15_CountersMonotone ==
    [][ /\ call_count' >= call_count
        /\ total_tokens' >= total_tokens
        /\ call_count > 0 => call_count' > 0
        /\ total_tokens > 0 => total_tokens' > 0
      ]_vars

\* after two counted calls without streaming that used up the budget, a request of
\* the session was skipped
C15_Witness ==
    /\ lastCall.made
    /\ lastCall.caller = "get_event_for_time_segment"
    /\ lastCall.requests = 0
    /\ call_count >= 2
    /\ total_tokens = MAX_TOKENS_TOTAL


----------------------------------------------------------------------------
(* C16 *)

\* ceil(a / b) for a >= 1, b >= 1: the least q with q * b >= a
CeilDiv(a, b) == CHOOSE q \in 1..a : q * b >= a /\ (q - 1) * b < a

\* the number of years of a segment
Width(segment) == segment[2] - segment[1] + 1

\* C16: for start <= end and count >= 1, every segment returned by
\* split_time_range but the last is exactly ceil((end - start + 1) / count) years
\* wide and the last is between 1 and that many years wide; and
\* split_time_range(1900, 1999, 4) is (1900,1924), (1925,1949), (1950,1974),
\* (1975,1999).
C16_SegmentWidths ==
    /\ split_time_range(1900, 1999, 4) =
           << <<1900, 1924>>, <<1925, 1949>>, <<1950, 1974>>, <<1975, 1999>> >>
    /\ (split.called /\ split.start_year <= split.end_year) =>
           LET per_segment == CeilDiv(split.end_year - split.start_year + 1,
                                      split.segments)
               n == Len(split.time_segments)
           IN  /\ n >= 1
               /\ \A k \in 1..(n - 1) : Width(split.time_segments[k]) = per_segment
               /\ Width(split.time_segments[n]) >= 1
               /\ Width(split.time_segments[n]) <= per_segment

\* a split into three segments or more whose last segment is narrower than the
\* others, the span not being a multiple of the count
C16_Witness ==
    /\ split.called
    /\ split.start_year <= split.end_year
    /\ Len(split.time_segments) >= 3
    /\ Width(Last(split.time_segments)) < Width(split.time_segments[1])
    /\ (split.end_year - split.start_year + 1) % split.segments # 0


----------------------------------------------------------------------------
(* C17 *)

\* the range typed in the round that is running cannot be parsed, or parses to
\* one year
WholeRangeRound ==
    /\ session.pc \in {"gen", "save"}
    /\ LET parsed == parse_time_range(session.time_range)
       IN  \/ ~parsed.start_year.is_int
           \/ parsed.start_year = parsed.end_year

\* C17: in a round whose time range cannot be parsed (start and end are both the
\* text typed) or parses to start = end, nothing is split whatever the count
\* typed: the one segment is the whole range, one generation request is made for
\* it, one note is saved, and the round is over.
C17_WholeRangeOnce ==
    /\ [](WholeRangeRound =>
            LET parsed == parse_time_range(session.time_range)
            IN  /\ ~session.segmented
                /\ session.time_segments = <<<<parsed.start_year, parsed.end_year>>>>
                /\ session.i = 1
                /\ session.saved_files = <<>>
                /\ Len(session.generated) = IF session.pc = "save" THEN 1 ELSE 0)
    /\ [][ /\ (WholeRangeRound /\ GenerateSegment) =>
                 session'.pc \in {"save", "idle"}
           /\ (WholeRangeRound /\ SaveSegment) =>
                 /\ session'.pc = "idle"
                 /\ lastSave'.io = "ok" =>
                        /\ lastSave'.filepath \notin DOMAIN event_dir
                        /\ DOMAIN event_dir' = DOMAIN event_dir \cup {lastSave'.filepath}
         ]_vars

\* the note of a range that could not be parsed is about to be saved, in a round
\* for which two segments were asked for
C17_Witness ==
    /\ WholeRangeRound
    /\ session.pc = "save"
    /\ session.segments = 2
    /\ ~parse_time_range(session.time_range).start_year.is_int
    /\ lastCall.requests > 0


----------------------------------------------------------------------------
(* C18 *)

\* the event is the match found at its recorded position of text: the text there
\* is original_line_text, which is "{", the marker text without a brace, "}", and
\* the name is the marker text stripped
MatchesAt(text, event) ==
    LET original == event.original_line_text
        marker == py_slice(original, 1, Len(original) - 1)
    IN  /\ 0 <= event.start_position
        /\ event.start_position < event.end_position
        /\ event.end_position <= Len(text)
        /\ py_slice(text, event.start_position, event.end_position) = original
        /\ Len(original) >= 3
        /\ original[1].c = "{"
        /\ original[Len(original)].c = "}"
        /\ \A k \in 1..Len(marker) : ~is_brace(marker[k])
        /\ event.name = strip(marker)
        /\ event.name # <<>>

\* C18: extract_events_from_file is a pure scan that can be run again: it changes
\* no file and no counter, a second call on the unchanged file returns the same
\* sequence, the events come in the order of their occurrence in the text
\* (strictly increasing start_position), and the text of the file at
\* [start_position, end_position) of each event is its original_line_text, "{" +
\* marker text + "}".
C18_ExtractPureOrdered ==
    /\ [](LET text == event_dir[SOURCE_FILE]
              events == extract_events_from_file(event_dir, SOURCE_FILE)
          IN  /\ \A k \in 1..Len(events) :
                     /\ MatchesAt(text, events[k])
                     /\ events[k].original_file = SOURCE_FILE
              /\ \A k \in 1..(Len(events) - 1) :
                     /\ events[k].start_position < events[k + 1].start_position
                     /\ events[k].end_position <= events[k + 1].start_position)
    /\ [][ StartFile =>
              /\ UNCHANGED <<event_dir, detail_dir, call_count, total_tokens>>
              /\ detail'.events = extract_events_from_file(event_dir', SOURCE_FILE)
         ]_vars

\* a note with two markers, one of them with white space around its name, has
\* been scanned
C18_Witness ==
    /\ detail.pc = "generate"
    /\ detail.i = 1
    /\ Len(detail.events) = 2
    /\ \E k \in 1..2 :
          Len(detail.events[k].original_line_text) > Len(detail.events[k].name) + 2


----------------------------------------------------------------------------
(* C19 *)

\* a streaming invocation whose last attempt was read to its end
StreamSucceeded ==
    /\ lastCall.made
    /\ lastCall.stream
    /\ lastCall.requests >= 1
    /\ Last(lastCall.attempts).kind = "ok"

\* C19: the content a successful streaming call_model returns is the concatenation
\* of the fragments of the successful attempt only: no fragment received in an
\* earlier attempt of the invocation that broke in mid-stream is in it.
C19_OnlySuccessfulAttempt ==
    StreamSucceeded => lastCall.ret = Last(lastCall.attempts).frags

----------------------------------------------------------------------------
(* C20 *)

\* the request for the detail of an event has used up its retries: call_model
\* returned the placeholder
DetailCallFailed ==
    /\ GenerateDetail
    /\ lastCall'.requests = RETRY_ATTEMPTS
    /\ lastCall'.ret = PLACEHOLDER

\* C20: in process_event_list_file an event whose call_model invocation used up
\* its retries and returned the placeholder produces no note: the event is
\* skipped, so no detail note is written for it, no back-link is put into the
\* source note and it is not counted as successful; no detail note ever holds the
\* placeholder.
C20_FailedCallNoNote ==
    /\ [][ DetailCallFailed => detail' = next_event(detail) ]_vars
    /\ [](\A f \in DOMAIN detail_dir : ~EmbedsRaw(detail_dir[f], PLACEHOLDER))



----------------------------------------------------------------------------
(* C21 *)

\* the last request of the session was answered: its last attempt was read to
\* the end of the stream
SessionCallAnswered ==
    /\ lastCall.made
    /\ lastCall.caller = "get_event_for_time_segment"
    /\ lastCall.stream
    /\ lastCall.requests > 0
    /\ Last(lastCall.attempts).kind = "ok"

\* C21: in a session every request goes through get_event_for_time_segment,
\* which calls call_model with the streaming default; a streaming call that
\* succeeds adds 0 to total_tokens, so total_tokens is 0 in every state of the
\* session, the budget check fails for every positive limit, and the sentinel
\* of the budget is never returned, however many calls were made.
C21_StreamingNeverSpends ==
    /\ total_tokens = 0
    /\ \A limit \in 1..MAX_TOKENS_TOTAL : ~(total_tokens >= limit)
    /\ ~budget_exceeded(total_tokens)
    /\ lastCall.made =>
          /\ lastCall.stream
          /\ lastCall.tt_before = 0
          /\ lastCall.tt_after = 0
          /\ lastCall.ret # BUDGET_EXCEEDED
          /\ lastCall.escaped \/ lastCall.requests > 0

\* the second request of a session was answered, after the first was counted
C21_Witness ==
    /\ SessionCallAnswered
    /\ lastCall.cc_before >= 1
    /\ call_count >= 2
    /\ total_tokens = 0
    /\ session.pc = "save"


----------------------------------------------------------------------------
(* C22 *)

\* the attempts of the last call that were answered and read to the end
SuccessfulAttempts ==
    {k \in 1..Len(lastCall.attempts) : lastCall.attempts[k].kind = "ok"}

\* the attempts of the last call that failed with a RequestException
RetriableAttempts ==
    {k \in 1..Len(lastCall.attempts) :
        is_RequestException(lastCall.attempts[k].kind)}

\* C22: every call_model invocation ends, by a return or by an exception, after
\* at most RETRY_ATTEMPTS requests, whatever the order of failed and successful
\* attempts: it returns at the first attempt whose response is read to the end,
\* makes no request and no sleep after it (every sleep follows a failed attempt
\* and precedes the next request), and makes no request past the cap.
C22_BoundedAttempts ==
    lastCall.made =>
        /\ lastCall.requests <= RETRY_ATTEMPTS
        /\ Len(lastCall.attempts) = lastCall.requests
        /\ lastCall.escaped \/ lastCall.ret # <<>>
        /\ \A k \in SuccessfulAttempts :
              /\ k = lastCall.requests
              /\ ~lastCall.escaped
              /\ Len(lastCall.sleeps) = k - 1
        /\ Len(lastCall.sleeps) <= Cardinality(RetriableAttempts)
        /\ \A k \in 1..Len(lastCall.sleeps) :
              /\ k < lastCall.requests
              /\ k \in RetriableAttempts
              /\ lastCall.sleeps[k] = wait_time(k - 1)
        /\ lastCall.requests < RETRY_ATTEMPTS =>
              Last(lastCall.attempts).kind \in {"ok", "malformed"}

\* a call whose first attempt failed and whose second was answered, with one
\* attempt left
C22_Witness ==
    /\ lastCall.made
    /\ lastCall.requests = 2
    /\ RETRY_ATTEMPTS > 2
    /\ 1 \in RetriableAttempts
    /\ SuccessfulAttempts = {2}
    /\ lastCall.sleeps = <<wait_time(0)>>
    /\ ~lastCall.escaped


----------------------------------------------------------------------------
(* C23 *)

\* the segment the round is working on has integer years in order
CurrentSegmentOrdered ==
    LET seg == session.time_segments[session.i]
    IN  (seg[1].is_int /\ seg[2].is_int) => seg[1].n <= seg[2].n

\* C23: whatever range text parses to integers and whatever segment count is
\* typed (a reversed range, a count of 0 or below included), no generation
\* request is made and no note is saved for a segment whose start year is
\* greater than its end year.
C23_NoReversedSegment ==
    [][ /\ (GenerateSegment /\ lastCall'.requests > 0) => CurrentSegmentOrdered
        /\ (SaveSegment /\ lastSave'.io = "ok") => CurrentSegmentOrdered
      ]_vars

====
